---- MODULE Spec2Model ----
(***************************************************************************)
(* Model of the postcard compositor (boxwork.py, imageeditor.py).          *)
(*                                                                         *)
(* Four specifications share one set of variables:                         *)
(*   SpecCrop    largest_crop applied to bounded source sizes and ratios   *)
(*   SpecShadow  add_shadow_gradient applied to small pixel canvases       *)
(*   SpecFit     the fit_font binary search, one loop iteration per step   *)
(*   Spec        main(), one pipeline stage per step, both script variants *)
(*                                                                         *)
(* Floating point values of the scripts are modelled as exact rationals    *)
(* <<num, den>>; int(x) is truncation toward zero.  Font metrics are       *)
(* linear in the point size: a line is [wk, hk], its bounding box at size  *)
(* s is (wk*s) div 10 wide and (hk*s) div 10 high.                         *)
(***************************************************************************)
EXTENDS Integers, Sequences, FiniteSets

VARIABLES
    \* ---- largest_crop ----
    crop_pc,        \* "idle" | "ready" | "done"
    crop_size,      \* img.size = <<w, h>> of the source handed to largest_crop
    crop_ratio,     \* ratio = <<num, den>>
    crop_box        \* the box Image.crop cuts, <<x0, y0, x1, y1>> (integers)

cropVars == <<crop_pc, crop_size, crop_ratio, crop_box>>

VARIABLES
    \* ---- add_shadow_gradient ----
    shadow_pc,      \* "idle" | "ready" | "done"
    shadow_cfg,     \* [ADD_SHADOW, SHADOW_OPACITY, SHADOW_HEIGHT_FRAC]
    base,           \* the canvas passed in: [w, h, px], px[<<x, y>>] in 0..255
    border_arg,     \* the border_px argument
    shadow_out      \* what the call produced (see add_shadow_gradient)

shadowVars == <<shadow_pc, shadow_cfg, base, border_arg, shadow_out>>

VARIABLES
    \* ---- fit_font ----
    fit_pc,         \* "idle" | "loop" | "done"
    fit_variant,    \* "boxwork" | "imageeditor"
    fit_lines,      \* the lines (boxwork) or the one text (imageeditor)
    max_w, max_h,   \* the box handed to fit_font
    lo, hi,         \* the search interval
    mid,            \* the size tested by the last iteration (0: none yet)
    accepted,       \* whether that size was accepted
    fit_size        \* the size of the font returned (0: not returned yet)

fitVars == <<fit_pc, fit_variant, fit_lines, max_w, max_h, lo, hi, mid,
             accepted, fit_size>>

VARIABLES
    \* ---- main ----
    pc,             \* next stage of main, or "done" / "aborted"
    variant,        \* "boxwork" | "imageeditor"
    config,         \* the module-level configuration (see Configs)
    input_exists,   \* INPUT_FILE.exists()
    src_size,       \* size of the tone-mapped, transposed image
    sips_calls,     \* number of times the tone-mapping tool was invoked
    img_size,       \* img.size after the crop (and the resize)
    DPI, border_px, W_PX, H_PX,
    paste_at,       \* where the photo was pasted on the canvas
    font_pt,        \* size of the resolved font
    total_text_height,
    ty_start,       \* y of the first caption line
    ty_lines,       \* ty_lines[i]: y at which line i was drawn
    tx,             \* tx[i]: x at which line i was drawn
    output_written, \* OUTPUT_FILE has been written
    stages,         \* the stages entered so far, in order
    error           \* "" or the error that aborted the run

mainVars == <<pc, variant, config, input_exists, src_size, sips_calls,
              img_size, DPI, border_px, W_PX, H_PX, paste_at, font_pt,
              total_text_height, ty_start, ty_lines, tx, output_written, stages, error>>

vars == <<cropVars, shadowVars, fitVars, mainVars>>

\* ------------------------------------------------------------------------
\* Bounds
\* ------------------------------------------------------------------------
MaxDim == 7         \* source width / height in SpecCrop range over 1..MaxDim
MaxCanvasW == 4     \* canvas widths in SpecShadow range over 2..MaxCanvasW
MaxCanvasH == 7     \* canvas heights in SpecShadow range over 2..MaxCanvasH
MaxBorder == 2      \* border_px in SpecShadow ranges over 0..MaxBorder
MaxLines == 2       \* fit_font is given 1..MaxLines caption lines in SpecFit

\* ------------------------------------------------------------------------
\* Arithmetic helpers
\* ------------------------------------------------------------------------
Abs(x) == IF x < 0 THEN -x ELSE x

Max2(a, b) == IF a >= b THEN a ELSE b

RECURSIVE SeqSum(_)
SeqSum(s) == IF s = <<>> THEN 0 ELSE Head(s) + SeqSum(Tail(s))

RECURSIVE SeqMax(_)
SeqMax(s) == IF Len(s) = 1 THEN s[1] ELSE Max2(Head(s), SeqMax(Tail(s)))

IsPrefix(s, t) == Len(s) <= Len(t) /\ \A i \in 1..Len(s) : s[i] = t[i]

\* Python int() of the rational n/d (d > 0): truncation toward zero.
PyInt(n, d) == IF n >= 0 THEN n \div d ELSE -((-n) \div d)

\* Python round() of the half-integer n/2 (round half to even), as applied
\* by Image.crop to every box coordinate.
PyRoundHalves(n) ==
    IF n % 2 = 0 THEN n \div 2
    ELSE LET k == (n - 1) \div 2 IN IF k % 2 = 0 THEN k ELSE k + 1

\* ------------------------------------------------------------------------
\* Configuration constants
\* ------------------------------------------------------------------------
WIDTH_IN == 4
HT_IN == 6
CONFIG_DPI == 300           \* the module-level DPI
BORDER_IN == <<1, 10>>      \* 0.1
CREAM == 195                \* red channel of the border colour
SHADOW_COLOR == 24          \* red channel of the shadow colour
FIT_LO == 6
FIT_HI == 600
GAP == <<15, 100>>          \* the 0.15 inter-line gap factor

\* ------------------------------------------------------------------------
\* largest_crop
\* ------------------------------------------------------------------------
\* w / h > ratio
IsWider(w, h, ratio) == w * ratio[2] > h * ratio[1]

\* nw = int(h * ratio)
CropNw(h, ratio) == PyInt(h * ratio[1], ratio[2])

\* nh = int(w / ratio)
CropNh(w, ratio) == PyInt(w * ratio[2], ratio[1])

\* The box img.crop receives is (left, 0, left + nw, h) with
\* left = 0.5 * (w - nw), or (0, top, w, top + nh) with top = 0.5 * (h - nh);
\* Image.crop rounds each coordinate with round() before cutting.
largest_crop(w, h, ratio) ==
    IF IsWider(w, h, ratio)
    THEN LET nw == CropNw(h, ratio)
         IN  <<PyRoundHalves(w - nw), 0, PyRoundHalves(w + nw), h>>
    ELSE LET nh == CropNh(w, ratio)
         IN  <<0, PyRoundHalves(h - nh), w, PyRoundHalves(h + nh)>>

\* size of the image img.crop returns
BoxSize(box) == <<box[3] - box[1], box[4] - box[2]>>

\* ------------------------------------------------------------------------
\* add_shadow_gradient
\* ------------------------------------------------------------------------
Pixels(w, h) == (0..(w - 1)) \X (0..(h - 1))

InInner(p, w, h, b) ==
    /\ b <= p[1] /\ p[1] < w - b
    /\ b <= p[2] /\ p[2] < h - b

\* canvas = Image.new("RGB", (W_PX, H_PX), CREAM); canvas.paste(img, (b, b))
\* (every photo pixel of the model has red channel 200)
MakeCanvas(w, h, b) ==
    [w |-> w, h |-> h,
     px |-> [p \in Pixels(w, h) |-> IF InInner(p, w, h, b) THEN 200 ELSE CREAM]]

\* if not ADD_SHADOW or SHADOW_OPACITY <= 0 or SHADOW_HEIGHT_FRAC <= 0
ShadowDisabled_NoToggle(cfg) ==
    \/ cfg.SHADOW_OPACITY[1] <= 0
    \/ cfg.SHADOW_HEIGHT_FRAC[1] <= 0

ShadowDisabled(cfg) ==
    \/ ~cfg.ADD_SHADOW
    \/ cfg.SHADOW_OPACITY[1] <= 0
    \/ cfg.SHADOW_HEIGHT_FRAC[1] <= 0

\* grad_h = int(inner_h * SHADOW_HEIGHT_FRAC)
GradH(inner_h, frac) == PyInt(inner_h * frac[1], frac[2])

\* alpha = int(SHADOW_OPACITY * 255 * (y / (grad_h - 1))), for grad_h >= 2
RampAlpha(opacity, y, grad_h) ==
    (opacity[1] * 255 * y) \div (opacity[2] * (grad_h - 1))

\* the 1-pixel-wide ramp, rows 0..grad_h-1 as a sequence 1..grad_h
Ramp(opacity, grad_h) == [i \in 1..grad_h |-> RampAlpha(opacity, i - 1, grad_h)]

\* Image.paste with a mask blends every band as (dst*(255-a) + src*a) / 255,
\* rounded: DIV255(v) = ((v + 128) >> 8 + v + 128) >> 8.
Blend8(dst, src, a) ==
    LET t == dst * (255 - a) + src * a + 128
    IN  ((t \div 256) + t) \div 256

\* base_rgba.paste(shadow, (border_px, paste_y), shadow): the band covers
\* columns border_px..border_px+inner_w-1 and rows paste_y..paste_y+grad_h-1,
\* clipped to the canvas only.
PasteBand(cv, b, paste_y, inner_w, ramp) ==
    [p \in Pixels(cv.w, cv.h) |->
        IF /\ b <= p[1] /\ p[1] < b + inner_w
           /\ paste_y <= p[2] /\ p[2] < paste_y + Len(ramp)
        THEN Blend8(cv.px[p], SHADOW_COLOR, ramp[p[2] - paste_y + 1])
        ELSE cv.px[p]]

\* How a call on a w x h canvas can end.  Image.new rejects a negative
\* size; y / (grad_h - 1) divides by zero when grad_h = 1; ramp.resize to a
\* zero dimension raises in some Pillow releases and gives an empty band in
\* others (both are kept), and raises for a negative width.
ShadowStatuses(w, h, b, cfg) ==
    IF ShadowDisabled(cfg) THEN {"ok"}
    ELSE LET inner_w == w - 2 * b
             grad_h  == GradH(h - 2 * b, cfg.SHADOW_HEIGHT_FRAC)
         IN  IF grad_h < 0 THEN {"ValueError"}
             ELSE IF grad_h = 1 THEN {"ZeroDivisionError"}
             ELSE IF inner_w < 0 THEN {"ValueError"}
             ELSE IF grad_h = 0 \/ inner_w = 0 THEN {"ValueError", "ok"}
             ELSE {"ok"}

ShadowOut(status, px, conv, pasted, ramp, grad_h, paste_y) ==
    [status |-> status, px |-> px, converted |-> conv, pasted |-> pasted,
     ramp |-> ramp, grad_h |-> grad_h, paste_y |-> paste_y]

\* The set of outcomes of add_shadow_gradient(base, border_px).
add_shadow_gradient(cv, b, cfg) ==
    IF ShadowDisabled(cfg)
    THEN {ShadowOut("ok", cv.px, FALSE, FALSE, <<>>, 0, 0)}
    ELSE
    LET inner_w == cv.w - 2 * b
        inner_h == cv.h - 2 * b
        grad_h  == GradH(inner_h, cfg.SHADOW_HEIGHT_FRAC)
        paste_y == b + inner_h - grad_h
    IN  { IF st # "ok"
          THEN ShadowOut(st, cv.px, FALSE, FALSE, <<>>, grad_h, 0)
          ELSE LET ramp == Ramp(cfg.SHADOW_OPACITY, grad_h)
               IN  ShadowOut("ok",
                       IF grad_h = 0 \/ inner_w = 0 THEN cv.px
                       ELSE PasteBand(cv, b, paste_y, inner_w, ramp),
                       TRUE, TRUE, ramp, grad_h, paste_y)
          : st \in ShadowStatuses(cv.w, cv.h, b, cfg) }

\* ------------------------------------------------------------------------
\* text_dims and fit_font
\* ------------------------------------------------------------------------
\* text_dims(draw, text, font) for the font at size pt
text_dims(line, pt) == <<(line.wk * pt) \div 10, (line.hk * pt) \div 10>>

\* int(0.15 * mid)
GapPx(pt) == PyInt(GAP[1] * pt, GAP[2])

\* boxwork.fit_font: max(line_widths) <= max_w and total_h <= max_h
Accepts_boxwork(lines, pt, mw, mh) ==
    LET line_heights == [i \in 1..Len(lines) |-> text_dims(lines[i], pt)[2]]
        line_widths  == [i \in 1..Len(lines) |-> text_dims(lines[i], pt)[1]]
        total_h      == SeqSum(line_heights) + (Len(lines) - 1) * GapPx(pt)
    IN  SeqMax(line_widths) <= mw /\ total_h <= mh

\* imageeditor.fit_font: max(text_dims(draw, text, font)) <= max(max_w, max_h)
Accepts_imageeditor(lines, pt, mw, mh) ==
    LET d == text_dims(lines[1], pt)
    IN  Max2(d[1], d[2]) <= Max2(mw, mh)

Accepts(v, lines, pt, mw, mh) ==
    IF v = "boxwork" THEN Accepts_boxwork(lines, pt, mw, mh)
    ELSE Accepts_imageeditor(lines, pt, mw, mh)

\* mid = (lo + hi + 1) // 2
Mid_RoundDown(l, h) == (l + h) \div 2

Mid(l, h) == (l + h + 1) \div 2

\* one iteration of the while loop: the new <<lo, hi>>
FitIter(v, lines, mw, mh, l, h) ==
    IF Accepts(v, lines, Mid(l, h), mw, mh)
    THEN <<Mid(l, h), h>>
    ELSE <<l, Mid(l, h) - 1>>

\* the size of the font fit_font returns
RECURSIVE FitLoop(_, _, _, _, _, _)
FitLoop(v, lines, mw, mh, l, h) ==
    IF l < h
    THEN LET n == FitIter(v, lines, mw, mh, l, h)
         IN  FitLoop(v, lines, mw, mh, n[1], n[2])
    ELSE l

fit_font(v, lines, mw, mh) == FitLoop(v, lines, mw, mh, FIT_LO, FIT_HI)

\* ------------------------------------------------------------------------
\* Canvas geometry and caption layout of main
\* ------------------------------------------------------------------------
\* boxwork: DPI = int((inner_w_px / inner_width_in + inner_h_px / inner_height_in) / 2)
\* with inner_width_in = WIDTH_IN - 2 * BORDER_IN, inner_height_in likewise
DerivedDPI(iw, ih) ==
    LET wn == WIDTH_IN * BORDER_IN[2] - 2 * BORDER_IN[1]   \* inner_width_in * den
        hn == HT_IN * BORDER_IN[2] - 2 * BORDER_IN[1]      \* inner_height_in * den
    IN  PyInt(iw * BORDER_IN[2] * hn + ih * BORDER_IN[2] * wn, 2 * wn * hn)

\* border_px = int(BORDER_IN * DPI)
BorderPx_Rounded(dpi) == (2 * BORDER_IN[1] * dpi + BORDER_IN[2]) \div (2 * BORDER_IN[2])

BorderPx(dpi) == PyInt(BORDER_IN[1] * dpi, BORDER_IN[2])

\* tx of one line
TxFor_NoBorder(align, w, b, tw, off) ==
    IF align = "center" THEN (w - tw) \div 2 + off
    ELSE IF align = "right" THEN w - tw + off
    ELSE b + off

TxFor(align, w, b, tw, off) ==
    IF align = "center" THEN (w - tw) \div 2 + off
    ELSE IF align = "right" THEN w - b - tw + off
    ELSE b + off

\* ty of the first line
TyStart(pos, h, b, tth, off) ==
    IF pos = "bottom" THEN h - b - tth + off ELSE b + off

\* line_height = font.getbbox("Hg")[3]
LineHeight(cfg, pt) == (cfg.hg_k * pt) \div 10

\* int(len(CAPTION_LINES) * line_height + (len(CAPTION_LINES) - 1) * 0.15 * font.size)
TotalTextHeight(n, lh, pt) == n * lh + PyInt((n - 1) * GAP[1] * pt, GAP[2])

\* tx of the single caption of imageeditor.main
TxSingle(align, w, b, tw) ==
    IF align = "center" THEN (w - tw) \div 2
    ELSE IF align = "left" THEN b
    ELSE w - b - tw

\* ------------------------------------------------------------------------
\* Input sets and idle values
\* ------------------------------------------------------------------------
CropRatios == {<<4, 6>>, <<1, 1>>, <<3, 2>>, <<2, 5>>}

Opacities == {<<0, 1>>, <<1, 2>>, <<1, 1>>}

HeightFracs == {<<0, 1>>, <<25, 100>>, <<55, 100>>, <<1, 1>>, <<3, 2>>}

ShadowCfgs ==
    [ADD_SHADOW : BOOLEAN, SHADOW_OPACITY : Opacities,
     SHADOW_HEIGHT_FRAC : HeightFracs]

NoShadowOut == ShadowOut("none", <<>>, FALSE, FALSE, <<>>, 0, 0)

FitMetrics == {[wk |-> 3, hk |-> 10], [wk |-> 50, hk |-> 8], [wk |-> 70, hk |-> 12]}

FitLines(v) ==
    IF v = "boxwork"
    THEN UNION {[1..n -> FitMetrics] : n \in 1..MaxLines}
    ELSE [1..1 -> FitMetrics]

FitWidths == {20, 1140, 7000}

FitHeights == {5, 180, 900}

Variants == {"boxwork", "imageeditor"}

MainSources == {<<3000, 4000>>, <<4000, 3000>>, <<1140, 1740>>, <<4, 5>>, <<8, 9>>}

MainShadows ==
    {[ADD_SHADOW |-> TRUE, SHADOW_OPACITY |-> <<1, 1>>, SHADOW_HEIGHT_FRAC |-> <<55, 100>>],
     [ADD_SHADOW |-> TRUE, SHADOW_OPACITY |-> <<1, 2>>, SHADOW_HEIGHT_FRAC |-> <<25, 100>>],
     [ADD_SHADOW |-> FALSE, SHADOW_OPACITY |-> <<1, 2>>, SHADOW_HEIGHT_FRAC |-> <<25, 100>>]}

MainLines ==
    {<<[wk |-> 50, hk |-> 8], [wk |-> 70, hk |-> 9]>>,
     <<[wk |-> 3, hk |-> 10], [wk |-> 4, hk |-> 10]>>}

\* CAPTION_TEXT of imageeditor: the lines joined into one text
JoinedText(lines) ==
    [wk |-> SeqSum([i \in 1..Len(lines) |-> lines[i].wk]) + 3,
     hk |-> SeqMax([i \in 1..Len(lines) |-> lines[i].hk])]

Configs ==
    { [ADD_SHADOW |-> sh.ADD_SHADOW, SHADOW_OPACITY |-> sh.SHADOW_OPACITY,
       SHADOW_HEIGHT_FRAC |-> sh.SHADOW_HEIGHT_FRAC,
       CAPTION_LINES |-> ls, CAPTION_TEXT |-> JoinedText(ls), hg_k |-> 11,
       CAPTION_POS |-> pos, CAPTION_ALIGN |-> al, CAPTION_OFFSET_PX |-> off,
       CAPTION_FONT_SIZE |-> fs, CAPTION_LINE_OFFSETS |-> lo_]
      : sh \in MainShadows, ls \in MainLines, pos \in {"bottom", "top"},
        al \in {"center", "left", "right"}, off \in {-75, 0, 40},
        fs \in {0, 300},
        lo_ \in {<<100, 100>>, <<0, 0>>, <<-7, 13>>, <<5>>} }

IdleCrop ==
    /\ crop_pc = "idle"
    /\ crop_size = <<1, 1>>
    /\ crop_ratio = <<WIDTH_IN, HT_IN>>
    /\ crop_box = <<>>

IdleShadow ==
    /\ shadow_pc = "idle"
    /\ shadow_cfg = [ADD_SHADOW |-> FALSE, SHADOW_OPACITY |-> <<0, 1>>,
                     SHADOW_HEIGHT_FRAC |-> <<0, 1>>]
    /\ border_arg = 0
    /\ base = [w |-> 0, h |-> 0, px |-> <<>>]
    /\ shadow_out = NoShadowOut

IdleFit ==
    /\ fit_pc = "idle"
    /\ fit_variant = "boxwork"
    /\ fit_lines = <<>>
    /\ max_w = 0 /\ max_h = 0
    /\ lo = FIT_LO /\ hi = FIT_HI
    /\ mid = 0 /\ accepted = FALSE /\ fit_size = 0

MainBlank ==
    /\ sips_calls = 0
    /\ img_size = <<0, 0>>
    /\ DPI = CONFIG_DPI
    /\ border_px = 0 /\ W_PX = 0 /\ H_PX = 0
    /\ paste_at = <<>>
    /\ font_pt = 0 /\ total_text_height = 0 /\ ty_start = 0
    /\ ty_lines = <<>> /\ tx = <<>>
    /\ output_written = FALSE
    /\ stages = <<>>
    /\ error = ""

IdleMain ==
    /\ pc = "idle"
    /\ variant = "boxwork"
    /\ config = <<>>
    /\ input_exists = FALSE
    /\ src_size = <<0, 0>>
    /\ MainBlank

\* ------------------------------------------------------------------------
\* SpecCrop
\* ------------------------------------------------------------------------
InitCrop ==
    /\ crop_pc = "ready"
    /\ crop_size \in (1..MaxDim) \X (1..MaxDim)
    /\ crop_ratio \in CropRatios
    /\ crop_box = <<>>
    /\ IdleShadow /\ IdleFit /\ IdleMain

DoCrop ==
    /\ crop_pc = "ready"
    /\ crop_box' = largest_crop(crop_size[1], crop_size[2], crop_ratio)
    /\ crop_pc' = "done"
    /\ UNCHANGED <<crop_size, crop_ratio>>
    /\ UNCHANGED <<shadowVars, fitVars, mainVars>>

NextCrop == DoCrop

SpecCrop == InitCrop /\ [][NextCrop]_vars

\* ------------------------------------------------------------------------
\* SpecShadow
\* ------------------------------------------------------------------------
InitShadow ==
    /\ shadow_pc = "ready"
    /\ shadow_cfg \in ShadowCfgs
    /\ border_arg \in 0..MaxBorder
    /\ \E w \in 2..MaxCanvasW, h \in 2..MaxCanvasH :
           base = MakeCanvas(w, h, border_arg)
    /\ shadow_out = NoShadowOut
    /\ IdleCrop /\ IdleFit /\ IdleMain

DoShadow ==
    /\ shadow_pc = "ready"
    /\ shadow_out' \in add_shadow_gradient(base, border_arg, shadow_cfg)
    /\ shadow_pc' = "done"
    /\ UNCHANGED <<shadow_cfg, base, border_arg>>
    /\ UNCHANGED <<cropVars, fitVars, mainVars>>

NextShadow == DoShadow

SpecShadow == InitShadow /\ [][NextShadow]_vars

\* ------------------------------------------------------------------------
\* SpecFit
\* ------------------------------------------------------------------------
InitFit ==
    /\ fit_pc = "loop"
    /\ fit_variant \in Variants
    /\ fit_lines \in FitLines(fit_variant)
    /\ max_w \in FitWidths
    /\ max_h \in FitHeights
    /\ lo = FIT_LO /\ hi = FIT_HI
    /\ mid = 0 /\ accepted = FALSE /\ fit_size = 0
    /\ IdleCrop /\ IdleShadow /\ IdleMain

\* one iteration of `while lo < hi`
FitStep ==
    /\ fit_pc = "loop"
    /\ lo < hi
    /\ mid' = Mid(lo, hi)
    /\ accepted' = Accepts(fit_variant, fit_lines, Mid(lo, hi), max_w, max_h)
    /\ LET n == FitIter(fit_variant, fit_lines, max_w, max_h, lo, hi)
       IN  lo' = n[1] /\ hi' = n[2]
    /\ UNCHANGED <<fit_pc, fit_variant, fit_lines, max_w, max_h, fit_size>>
    /\ UNCHANGED <<cropVars, shadowVars, mainVars>>

\* return pick_font(lo)
FitReturn ==
    /\ fit_pc = "loop"
    /\ ~(lo < hi)
    /\ fit_size' = lo
    /\ fit_pc' = "done"
    /\ UNCHANGED <<fit_variant, fit_lines, max_w, max_h, lo, hi, mid, accepted>>
    /\ UNCHANGED <<cropVars, shadowVars, mainVars>>

NextFit == FitStep \/ FitReturn

SpecFit == InitFit /\ [][NextFit]_vars

\* ------------------------------------------------------------------------
\* Spec: main(), both scripts
\* ------------------------------------------------------------------------
Init ==
    /\ pc = "start"
    /\ variant \in Variants
    /\ config \in Configs
    /\ input_exists \in BOOLEAN
    /\ src_size \in MainSources
    /\ MainBlank
    /\ IdleCrop /\ IdleShadow /\ IdleFit

Abort(e) == pc' = "aborted" /\ error' = e

layoutVars == <<font_pt, total_text_height, ty_start, ty_lines, tx>>

canvasVars == <<img_size, DPI, border_px, W_PX, H_PX, paste_at>>

inputVars == <<variant, config, input_exists, src_size>>

\* if not INPUT_FILE.exists(): sys.exit("input image not found")
CheckInput_Unchecked ==
    /\ pc = "start"
    /\ stages' = Append(stages, "check")
    /\ pc' = "tonemap" /\ error' = error
    /\ UNCHANGED <<inputVars, sips_calls, canvasVars, layoutVars, output_written>>
    /\ UNCHANGED <<cropVars, shadowVars, fitVars>>

CheckInput ==
    /\ pc = "start"
    /\ stages' = Append(stages, "check")
    /\ IF input_exists THEN pc' = "tonemap" /\ error' = error
       ELSE Abort("input image not found")
    /\ UNCHANGED <<inputVars, sips_calls, canvasVars, layoutVars, output_written>>
    /\ UNCHANGED <<cropVars, shadowVars, fitVars>>

\* run_sips_to_srgb: subprocess.run(cmd, check=True) raises on a non-zero exit
ToneMap ==
    /\ pc = "tonemap"
    /\ stages' = Append(stages, "tonemap")
    /\ sips_calls' = sips_calls + 1
    /\ \E exit_ok \in BOOLEAN :
          IF exit_ok THEN pc' = "crop" /\ error' = error
          ELSE Abort("CalledProcessError")
    /\ UNCHANGED <<inputVars, canvasVars, layoutVars, output_written>>
    /\ UNCHANGED <<cropVars, shadowVars, fitVars>>

\* img = largest_crop(exif_transpose(Image.open(tmp_path)), WIDTH_IN / HT_IN)
Crop ==
    /\ pc = "crop"
    /\ stages' = Append(stages, "crop")
    /\ img_size' = BoxSize(largest_crop(src_size[1], src_size[2], <<WIDTH_IN, HT_IN>>))
    /\ pc' = "assemble"
    /\ UNCHANGED <<inputVars, sips_calls, DPI, border_px, W_PX, H_PX, paste_at,
                   layoutVars, output_written, error>>
    /\ UNCHANGED <<cropVars, shadowVars, fitVars>>

\* boxwork: the DPI is derived from the cropped photo and the canvas grows
\* around it.  imageeditor: the canvas is WIDTH_IN x HT_IN at the configured
\* DPI and the photo is resized to the inner rectangle.
Assemble ==
    /\ pc = "assemble"
    /\ stages' = Append(stages, "assemble")
    /\ IF variant = "boxwork"
       THEN LET dpi == DerivedDPI(img_size[1], img_size[2])
                b   == BorderPx(dpi)
            IN  /\ DPI' = dpi
                /\ border_px' = b
                /\ W_PX' = img_size[1] + 2 * b
                /\ H_PX' = img_size[2] + 2 * b
                /\ img_size' = img_size
                /\ paste_at' = <<b, b>>
       ELSE LET b == BorderPx(DPI)
                w == WIDTH_IN * DPI
                h == HT_IN * DPI
            IN  /\ DPI' = DPI
                /\ border_px' = b
                /\ W_PX' = w
                /\ H_PX' = h
                /\ img_size' = <<w - 2 * b, h - 2 * b>>
                /\ paste_at' = <<b, b>>
    /\ pc' = "shadow"
    /\ UNCHANGED <<inputVars, sips_calls, layoutVars, output_written, error>>
    /\ UNCHANGED <<cropVars, shadowVars, fitVars>>

\* canvas = add_shadow_gradient(canvas, border_px)
Shadow ==
    /\ pc = "shadow"
    /\ stages' = Append(stages, "shadow")
    /\ \E st \in ShadowStatuses(W_PX, H_PX, border_px, config) :
          IF st = "ok" THEN pc' = "caption" /\ error' = error
          ELSE Abort(st)
    /\ UNCHANGED <<inputVars, sips_calls, canvasVars, layoutVars, output_written>>
    /\ UNCHANGED <<cropVars, shadowVars, fitVars>>

\* font resolution, vertical placement and the per-line loop of boxwork.main
Caption_boxwork ==
    LET lines == config.CAPTION_LINES
        offs  == config.CAPTION_LINE_OFFSETS
        n     == Len(lines)
        pt    == IF config.CAPTION_FONT_SIZE # 0 THEN config.CAPTION_FONT_SIZE
                 ELSE fit_font("boxwork", lines, img_size[1], PyInt(12 * H_PX, 100))
        lh    == LineHeight(config, pt)
        tth   == TotalTextHeight(n, lh, pt)
        ty0   == TyStart(config.CAPTION_POS, H_PX, border_px, tth, config.CAPTION_OFFSET_PX)
        drawn == IF Len(offs) < n THEN Len(offs) ELSE n
    IN  /\ font_pt' = pt
        /\ total_text_height' = tth
        /\ ty_start' = ty0
        /\ tx' = [i \in 1..drawn |->
                    TxFor(config.CAPTION_ALIGN, W_PX, border_px,
                          text_dims(lines[i], pt)[1], offs[i])]
        /\ ty_lines' = [i \in 1..drawn |-> ty0 + (i - 1) * (lh + GapPx(pt))]
        /\ IF drawn < n THEN Abort("IndexError")
           ELSE pc' = "save" /\ error' = error

\* the single caption of imageeditor.main
Caption_imageeditor ==
    LET text == config.CAPTION_TEXT
        pt   == fit_font("imageeditor", <<text>>, img_size[1], PyInt(10 * H_PX, 100))
        d    == text_dims(text, pt)
        ty0  == TyStart(config.CAPTION_POS, H_PX, border_px, d[2], config.CAPTION_OFFSET_PX)
    IN  /\ font_pt' = pt
        /\ total_text_height' = d[2]
        /\ ty_start' = ty0
        /\ tx' = <<TxSingle(config.CAPTION_ALIGN, W_PX, border_px, d[1])>>
        /\ ty_lines' = <<ty0>>
        /\ pc' = "save" /\ error' = error

Caption ==
    /\ pc = "caption"
    /\ stages' = Append(stages, "caption")
    /\ IF variant = "boxwork" THEN Caption_boxwork ELSE Caption_imageeditor
    /\ UNCHANGED <<inputVars, sips_calls, canvasVars, output_written>>
    /\ UNCHANGED <<cropVars, shadowVars, fitVars>>

\* canvas.save(OUTPUT_FILE, **save_kwargs)
Save ==
    /\ pc = "save"
    /\ stages' = Append(stages, "save")
    /\ output_written' = TRUE
    /\ pc' = "open"
    /\ UNCHANGED <<inputVars, sips_calls, canvasVars, layoutVars, error>>
    /\ UNCHANGED <<cropVars, shadowVars, fitVars>>

\* subprocess.run(["open", str(OUTPUT_FILE)])
OpenViewer ==
    /\ pc = "open"
    /\ stages' = Append(stages, "open")
    /\ pc' = "done"
    /\ UNCHANGED <<inputVars, sips_calls, canvasVars, layoutVars, output_written, error>>
    /\ UNCHANGED <<cropVars, shadowVars, fitVars>>

Next ==
    \/ CheckInput
    \/ ToneMap
    \/ Crop
    \/ Assemble
    \/ Shadow
    \/ Caption
    \/ Save
    \/ OpenViewer

Spec == Init /\ [][Next]_vars

\* ========================================================================
\* Properties
\* ========================================================================

\* C1: largest_crop keeps the full extent of one axis, the kept extent of
\* the other axis is floor(h*ratio) (wider source) or floor(w/ratio)
\* (otherwise), and the pixels discarded on the two sides of the trimmed
\* axis differ by at most 1 once the box coordinates are rounded.
C1_CropKeepsFloorAndCenters ==
    crop_pc = "done" =>
        LET w == crop_size[1]
            h == crop_size[2]
        IN  IF w * crop_ratio[2] > h * crop_ratio[1]
            THEN /\ crop_box[2] = 0 /\ crop_box[4] = h
                 /\ crop_box[3] - crop_box[1] = (h * crop_ratio[1]) \div crop_ratio[2]
                 /\ Abs(crop_box[1] - (w - crop_box[3])) <= 1
            ELSE /\ crop_box[1] = 0 /\ crop_box[3] = w
                 /\ crop_box[4] - crop_box[2] = (w * crop_ratio[2]) \div crop_ratio[1]
                 /\ Abs(crop_box[2] - (h - crop_box[4])) <= 1

\* the shadow is switched on: toggle set, opacity > 0, height fraction > 0
ShadowOn ==
    /\ shadow_cfg.ADD_SHADOW
    /\ shadow_cfg.SHADOW_OPACITY[1] > 0
    /\ shadow_cfg.SHADOW_HEIGHT_FRAC[1] > 0

\* C2: add_shadow_gradient never changes a pixel within border_px of a
\* canvas edge, for every canvas size, border and height fraction: the band
\* stays inside the inner photo rectangle whatever the gradient height.
C2_BorderUntouched ==
    shadow_pc = "done" =>
        \A p \in Pixels(base.w, base.h) :
            ~InInner(p, base.w, base.h, border_arg)
                => shadow_out.px[p] = base.px[p]

\* C3: with opacity <= 0, height fraction <= 0 or the shadow toggled off,
\* the canvas comes back pixel for pixel, no ramp is built, nothing is
\* pasted and no mode conversion happens.
C3_DisabledIsNoOp ==
    (shadow_pc = "done" /\ ~ShadowOn) =>
        /\ shadow_out.status = "ok"
        /\ shadow_out.px = base.px
        /\ shadow_out.ramp = <<>>
        /\ ~shadow_out.pasted
        /\ ~shadow_out.converted

C3_Witness ==
    /\ shadow_pc = "done"
    /\ ~shadow_cfg.ADD_SHADOW
    /\ shadow_cfg.SHADOW_OPACITY = <<1, 1>>
    /\ shadow_cfg.SHADOW_HEIGHT_FRAC = <<55, 100>>
    /\ base.h - 2 * border_arg >= 4
    /\ base.w - 2 * border_arg >= 1
    /\ shadow_out.px = base.px

\* C10: an enabled shadow whose grad_h is <= 1 completes without a
\* division by zero; for grad_h >= 2 the ramp is non-decreasing, 0 on the
\* top row and int(opacity * 255) on the bottom row.
C10_RampWellDefined ==
    (shadow_pc = "done" /\ ShadowOn) =>
        /\ shadow_out.status # "ZeroDivisionError"
        /\ (shadow_out.status = "ok" /\ shadow_out.grad_h >= 2) =>
              LET r == shadow_out.ramp
                  o == shadow_cfg.SHADOW_OPACITY
              IN  /\ Len(r) = shadow_out.grad_h
                  /\ r[1] = 0
                  /\ r[Len(r)] = (o[1] * 255) \div o[2]
                  /\ \A i \in 1..(Len(r) - 1) : r[i] <= r[i + 1]

\* the acceptance predicate of the running search, as a function of the size
FitAcc(s) == Accepts(fit_variant, fit_lines, s, max_w, max_h)

FitMonotone == \A s \in (FIT_LO + 1)..FIT_HI : FitAcc(s) => FitAcc(s - 1)

C4_Interval ==
    fit_pc # "idle" =>
        /\ FIT_LO <= lo /\ lo <= hi /\ hi <= FIT_HI
        /\ (fit_pc = "done" /\ FitMonotone) =>
              /\ lo = hi
              /\ fit_size = lo
              /\ IF \E s \in FIT_LO..FIT_HI : FitAcc(s)
                 THEN /\ FitAcc(fit_size)
                      /\ \A s \in FIT_LO..FIT_HI : FitAcc(s) => s <= fit_size
                 ELSE fit_size = FIT_LO

\* C4: for a monotone acceptance predicate the search over 6..600 keeps
\* 6 <= lo <= hi <= 600, shrinks hi - lo in every iteration, ends with
\* lo = hi and returns the largest accepted size, or 6 when no size is
\* accepted.
C4_FitFontConverges ==
    /\ []C4_Interval
    /\ [][(fit_pc = "loop" /\ lo < hi) => (hi' - lo' < hi - lo)]_vars

C4_Witness ==
    /\ fit_pc = "done"
    /\ fit_variant = "boxwork"
    /\ Len(fit_lines) = 2
    /\ FIT_LO < fit_size /\ fit_size < FIT_HI
    /\ FitAcc(fit_size) /\ ~FitAcc(fit_size + 1)

\* C9: in every variant a size is accepted iff the widest line is <= the
\* available width and the stacked height (line heights plus a 0.15*size
\* gap between lines) is <= the available height.
C9_SeparateBounds ==
    (fit_pc # "idle" /\ mid # 0) =>
        LET n      == Len(fit_lines)
            widths == [i \in 1..n |-> (fit_lines[i].wk * mid) \div 10]
            total  == SeqSum([i \in 1..n |-> (fit_lines[i].hk * mid) \div 10])
                          + (n - 1) * ((15 * mid) \div 100)
        IN  accepted <=> (SeqMax(widths) <= max_w /\ total <= max_h)

\* the caption stage has run (to its end or to the line that failed)
CaptionRan == Len(stages) >= 6

\* width and horizontal offset of the i-th line drawn
DrawnWidth(i) ==
    IF variant = "boxwork"
    THEN (config.CAPTION_LINES[i].wk * font_pt) \div 10
    ELSE (config.CAPTION_TEXT.wk * font_pt) \div 10

DrawnOffset(i) ==
    IF variant = "boxwork" THEN config.CAPTION_LINE_OFFSETS[i] ELSE 0

\* C5: every line drawn has its left edge at border_px + offset[i] (left),
\* its right edge at W_PX - border_px + offset[i] (right), or its midpoint
\* within one pixel of W_PX/2 + offset[i] (center), in both scripts.
C5_HorizontalPlacement ==
    CaptionRan =>
        \A i \in 1..Len(tx) :
            LET tw  == DrawnWidth(i)
                off == DrawnOffset(i)
            IN  /\ config.CAPTION_ALIGN = "left" => tx[i] = border_px + off
                /\ config.CAPTION_ALIGN = "right" =>
                       tx[i] + tw = W_PX - border_px + off
                /\ config.CAPTION_ALIGN = "center" =>
                       Abs((2 * tx[i] + tw) - (W_PX + 2 * off)) <= 2

C5_Witness ==
    /\ pc = "save"
    /\ variant = "boxwork"
    /\ config.CAPTION_ALIGN = "right"
    /\ config.CAPTION_LINE_OFFSETS = <<-7, 13>>
    /\ border_px > 0
    /\ Len(tx) = 2
    /\ tx[2] + DrawnWidth(2) = W_PX - border_px + 13

\* C6: bottom anchor: a positive vertical offset moves the text up (smaller
\* y), a negative one down; top anchor: a positive offset moves it down;
\* the starting y is H_PX - border_px - total_text_height + offset (bottom)
\* or border_px + offset (top).
C6_OffsetDirection ==
    CaptionRan =>
        LET off == config.CAPTION_OFFSET_PX
            y0  == IF config.CAPTION_POS = "bottom"
                   THEN H_PX - border_px - total_text_height
                   ELSE border_px
        IN  /\ ty_start = y0 + off
            /\ (config.CAPTION_POS = "bottom" /\ off > 0) => ty_start < y0
            /\ (config.CAPTION_POS = "bottom" /\ off < 0) => ty_start > y0
            /\ (config.CAPTION_POS = "top" /\ off > 0) => ty_start > y0

StageOrder ==
    <<"check", "tonemap", "crop", "assemble", "shadow", "caption", "save", "open">>

\* C7: the stages run in the order check, tone-mapping, crop, assembly,
\* shadow, caption, save; a missing input aborts before the tone-mapping
\* tool is invoked; a failed tone-mapping aborts without a second
\* invocation; the output file is written only by the save stage, after
\* every other stage, and never in a run that aborted.
C7_StagesAndOutput ==
    /\ IsPrefix(stages, StageOrder)
    /\ sips_calls <= 1
    /\ ~input_exists =>
          /\ sips_calls = 0
          /\ Len(stages) <= 1
          /\ pc \in {"start", "aborted"}
    /\ error = "CalledProcessError" =>
          /\ pc = "aborted"
          /\ sips_calls = 1
          /\ Len(stages) = 2
    /\ output_written => (Len(stages) >= 7 /\ pc \in {"open", "done"})
    /\ pc = "aborted" => (~output_written /\ error # "")

C7_Witness ==
    /\ pc = "aborted"
    /\ error = "ZeroDivisionError"
    /\ stages = <<"check", "tonemap", "crop", "assemble", "shadow">>
    /\ ~output_written

\* the canvas has been assembled
Assembled == Len(stages) >= 4

\* C8 (as stated): for a 3000x4000 source the margin is 30 px, from the
\* configured 300 DPI, and the canvas is the inner photo plus 60 px per
\* axis; in general canvas = inner + 2*margin, photo pasted at (margin, margin).
C8_Margin30 ==
    Assembled =>
        /\ W_PX = img_size[1] + 2 * border_px
        /\ H_PX = img_size[2] + 2 * border_px
        /\ paste_at = <<border_px, border_px>>
        /\ src_size = <<3000, 4000>> =>
              /\ border_px = 30
              /\ W_PX = img_size[1] + 60
              /\ H_PX = img_size[2] + 60

\* C8 (amended): canvas = inner + 2*margin with the photo at (margin,
\* margin) and margin = int(0.1 * DPI); imageeditor uses the configured 300
\* DPI (margin 30, canvas 1200x1800); boxwork derives the DPI from the crop,
\* so a 3000x4000 source gives a 2666x4000 photo, DPI 695, margin 69 and a
\* 2804x4138 canvas.
C8_MarginFromVariantDPI ==
    Assembled =>
        /\ W_PX = img_size[1] + 2 * border_px
        /\ H_PX = img_size[2] + 2 * border_px
        /\ paste_at = <<border_px, border_px>>
        /\ border_px = DPI \div 10
        /\ variant = "imageeditor" =>
              /\ DPI = 300 /\ border_px = 30
              /\ W_PX = 1200 /\ H_PX = 1800
              /\ img_size = <<1140, 1740>>
        /\ (variant = "boxwork" /\ src_size = <<3000, 4000>>) =>
              /\ img_size = <<2666, 4000>>
              /\ DPI = 695 /\ border_px = 69
              /\ W_PX = 2804 /\ H_PX = 4138

C8_Witness ==
    /\ Assembled
    /\ variant = "boxwork"
    /\ src_size = <<3000, 4000>>
    /\ border_px = 69
    /\ W_PX = img_size[1] + 138

====
